---------------------------- MODULE Spec2Model ----------------------------
(***************************************************************************)
(* A model of app/lambda_function.py: an AWS Lambda handler that answers   *)
(* GET and POST behind an API gateway and, before anything else, injects   *)
(* a random failure with probability FAILURE_PROBABILITY.                  *)
(*                                                                         *)
(* Python values are tagged tuples <<tag, payload>>:                       *)
(*   <<"None", "None">>          None                                      *)
(*   <<"str", s>>                a str, s a TLA+ string                    *)
(*   <<"text", toks>>            a str kept as its JSON tokens (a body)    *)
(*   <<"int", digits>>           an int, by its decimal digits             *)
(*   <<"float", repr>>           a float, by its repr ("inf", "nan")       *)
(*   <<"dict", pairs>>           a dict: its <<key, value>> pairs in       *)
(*                               insertion order, keys unique              *)
(*   <<"list", items>>           a list                                    *)
(*   <<"bool", "True">>          a bool, by its name                       *)
(* A text is the sequence of its tokens <<kind, lexeme>>; Chars gives the  *)
(* characters.                                                             *)
(***************************************************************************)
EXTENDS Integers, Sequences, FiniteSets, TLC

VARIABLES
    rngStream,    \* the values the module-level generator of `random` yields
    rngPos,       \* its state: the position of the next value
    pc,           \* pc[i]: where invocation i of lambda_handler stands
    event,        \* event[i]: the event the runtime passed
    draws,        \* draws[i]: the random values this invocation has drawn
    http_method,  \* http_method[i]: the local of line 78
    response,     \* response[i]: the dict lambda_handler returned
    raised        \* raised[i]: the exception that left lambda_handler

vars == <<rngStream, rngPos, pc, event, draws, http_method, response, raised>>

---------------------------------------------------------------------------
(* Bounds *)

NumInvocations == 2     \* invocations that may be in flight in one process
RngPeriod == 2          \* length of the generator's cycle
MaxPairs == 2           \* members of a posted object

(* 0.001, in thousandths *)
FAILURE_PROBABILITY == 1

Invocations == 1..NumInvocations
(* What random.random() yields, in thousandths: below the threshold, and at it *)
DrawValues == 0..FAILURE_PROBABILITY

---------------------------------------------------------------------------
(* Python values *)

PyNone == <<"None", "None">>
PyStr(s) == <<"str", s>>
PyText(toks) == <<"text", toks>>
PyDict(pairs) == <<"dict", pairs>>
Unset == <<"unset", "unset">>

IsDict(v) == v[1] = "dict"

HasKey(d, k) == \E n \in 1..Len(d[2]) : d[2][n][1] = k

(* dict.get(key, default) *)
DictGet(d, k, default) ==
    IF HasKey(d, k)
    THEN d[2][CHOOSE n \in 1..Len(d[2]) : d[2][n][1] = k][2]
    ELSE default

(* dict(pairs): a repeated key keeps its first place and takes the last value *)
RECURSIVE DictFromPairs(_)
DictFromPairs(pairs) ==
    IF pairs = <<>> THEN <<>>
    ELSE LET n == Len(pairs)
             before == DictFromPairs(SubSeq(pairs, 1, n - 1))
             last == pairs[n]
         IN  IF \E m \in 1..Len(before) : before[m][1] = last[1]
             THEN [m \in 1..Len(before) |->
                      IF before[m][1] = last[1] THEN last ELSE before[m]]
             ELSE Append(before, last)

---------------------------------------------------------------------------
(* JSON texts *)

LBrace == <<"punct", "{">>
RBrace == <<"punct", "}">>
Colon == <<"punct", ":">>
Comma == <<"punct", ",">>
Space == <<"ws", " ">>
StringTok(s) == <<"string", s>>
NumberTok(lexeme) == <<"number", lexeme>>
ConstantTok(lexeme) == <<"constant", lexeme>>

(* The characters of one token, and of a text *)
Lexeme(tok) == IF tok[1] = "string" THEN "\"" \o tok[2] \o "\"" ELSE tok[2]

RECURSIVE Chars(_)
Chars(toks) == IF toks = <<>> THEN "" ELSE Lexeme(Head(toks)) \o Chars(Tail(toks))


LBracket == <<"punct", "[">>
RBracket == <<"punct", "]">>
NullTok == <<"literal", "null">>
TrueTok == <<"literal", "true">>
FalseTok == <<"literal", "false">>

(* Whitespace between tokens is insignificant to the decoder *)
StripWs(toks) == SelectSeq(toks, LAMBDA tok : tok[1] # "ws")

(* Number lexemes whose value overflows a double: float() gives inf *)
OverflowLexemes == {"1e400"}

(* int(lexeme) without fraction or exponent, float(lexeme) with one *)
PyNumber(lexeme) ==
    IF lexeme \in OverflowLexemes THEN <<"float", "inf">> ELSE <<"int", lexeme>>

(* null, true and false *)
PyLiteral(lexeme) ==
    CASE lexeme = "null" -> PyNone
      [] lexeme = "true" -> <<"bool", "True">>
      [] OTHER -> <<"bool", "False">>

(* NaN, Infinity and -Infinity, which the decoder takes by default *)
PyConstant(lexeme) ==
    CASE lexeme = "NaN" -> <<"float", "nan">>
      [] lexeme = "Infinity" -> <<"float", "inf">>
      [] OTHER -> <<"float", "-inf">>

Failed(p) == [ok |-> FALSE, val |-> PyNone, pos |-> p]
Parsed(v, p) == [ok |-> TRUE, val |-> v, pos |-> p]

(* One JSON value of toks from position p on; lenient takes the constants. *)
(* ok, the value, and the position after it.                               *)
RECURSIVE Decode(_, _, _)
RECURSIVE DecodeMembers(_, _, _, _)
RECURSIVE DecodeElements(_, _, _, _)

Decode(toks, p, lenient) ==
    IF p > Len(toks) THEN Failed(p)
    ELSE LET tok == toks[p] IN
         CASE tok[1] = "string" -> Parsed(PyStr(tok[2]), p + 1)
           [] tok[1] = "number" -> Parsed(PyNumber(tok[2]), p + 1)
           [] tok[1] = "literal" -> Parsed(PyLiteral(tok[2]), p + 1)
           [] tok[1] = "constant" ->
                IF lenient THEN Parsed(PyConstant(tok[2]), p + 1) ELSE Failed(p)
           [] tok = LBrace ->
                IF p + 1 <= Len(toks) /\ toks[p + 1] = RBrace
                THEN Parsed(PyDict(<<>>), p + 2)
                ELSE DecodeMembers(toks, p + 1, <<>>, lenient)
           [] tok = LBracket ->
                IF p + 1 <= Len(toks) /\ toks[p + 1] = RBracket
                THEN Parsed(<<"list", <<>> >>, p + 2)
                ELSE DecodeElements(toks, p + 1, <<>>, lenient)
           [] OTHER -> Failed(p)

(* "key": value, then a comma and the next member, or the closing brace *)
DecodeMembers(toks, p, pairs, lenient) ==
    IF p + 1 > Len(toks) \/ toks[p][1] # "string" \/ toks[p + 1] # Colon
    THEN Failed(p)
    ELSE LET r == Decode(toks, p + 2, lenient)
             got == Append(pairs, <<toks[p][2], r.val>>)
         IN  IF ~r.ok \/ r.pos > Len(toks) THEN Failed(r.pos)
             ELSE IF toks[r.pos] = RBrace
                  THEN Parsed(PyDict(DictFromPairs(got)), r.pos + 1)
             ELSE IF toks[r.pos] = Comma
                  THEN DecodeMembers(toks, r.pos + 1, got, lenient)
             ELSE Failed(r.pos)

DecodeElements(toks, p, items, lenient) ==
    LET r == Decode(toks, p, lenient)
        got == Append(items, r.val)
    IN  IF ~r.ok \/ r.pos > Len(toks) THEN Failed(r.pos)
        ELSE IF toks[r.pos] = RBracket
             THEN Parsed(<<"list", got>>, r.pos + 1)
        ELSE IF toks[r.pos] = Comma
             THEN DecodeElements(toks, r.pos + 1, got, lenient)
        ELSE Failed(r.pos)

(* A whole text: one value and nothing after it *)
DecodeText(toks, lenient) ==
    LET t == StripWs(toks)
        r == Decode(t, 1, lenient)
    IN  IF r.ok /\ r.pos = Len(t) + 1 THEN r ELSE Failed(r.pos)

(* json.loads(s): exc is "" or the exception it raises *)
json_loads(s) ==
    IF s[1] # "text" THEN [exc |-> "TypeError", val |-> PyNone]
    ELSE LET r == DecodeText(s[2], TRUE)
         IN  IF r.ok THEN [exc |-> "", val |-> r.val]
             ELSE [exc |-> "JSONDecodeError", val |-> PyNone]

(* separators=(",", ":") in place of the default *)
KEY_SEPARATOR_Compact == <<Colon>>

(* json.dumps's default separators *)
ITEM_SEPARATOR == <<Comma, Space>>
KEY_SEPARATOR == <<Colon, Space>>

(* float.__repr__, with the names the encoder gives nan and the infinities *)
FloatTok(repr) ==
    CASE repr = "nan" -> ConstantTok("NaN")
      [] repr = "inf" -> ConstantTok("Infinity")
      [] repr = "-inf" -> ConstantTok("-Infinity")
      [] OTHER -> NumberTok(repr)

RECURSIVE Encode(_)
RECURSIVE EncodeMembers(_)
RECURSIVE EncodeElements(_)

Encode(v) ==
    CASE v[1] = "dict" -> <<LBrace>> \o EncodeMembers(v[2]) \o <<RBrace>>
      [] v[1] = "list" -> <<LBracket>> \o EncodeElements(v[2]) \o <<RBracket>>
      [] v[1] = "str" -> <<StringTok(v[2])>>
      [] v[1] = "int" -> <<NumberTok(v[2])>>
      [] v[1] = "float" -> <<FloatTok(v[2])>>
      [] v[1] = "bool" -> <<IF v[2] = "True" THEN TrueTok ELSE FalseTok>>
      [] OTHER -> <<NullTok>>

EncodeMembers(pairs) ==
    IF pairs = <<>> THEN <<>>
    ELSE <<StringTok(pairs[1][1])>> \o KEY_SEPARATOR \o Encode(pairs[1][2])
         \o (IF Len(pairs) = 1 THEN <<>>
             ELSE ITEM_SEPARATOR \o EncodeMembers(Tail(pairs)))

EncodeElements(items) ==
    IF items = <<>> THEN <<>>
    ELSE Encode(items[1])
         \o (IF Len(items) = 1 THEN <<>>
             ELSE ITEM_SEPARATOR \o EncodeElements(Tail(items)))

(* json.dumps(obj): the text *)
json_dumps(v) == Encode(v)

---------------------------------------------------------------------------
(* The events the gateway passes *)

Keys == {"name", "k"}

(* The texts of the values a posted object holds *)
MemberValueTexts ==
    { <<StringTok("widget")>>, <<NumberTok("1e400")>>, <<ConstantTok("NaN")>> }

(* n members, comma-separated, as a client sends them *)
RECURSIVE MemberTexts(_)
MemberTexts(n) ==
    LET one == { <<StringTok(k), Colon>> \o v : k \in Keys, v \in MemberValueTexts }
    IN  IF n = 1 THEN one
        ELSE { m \o <<Comma>> \o rest : m \in one, rest \in MemberTexts(n - 1) }

ObjectTexts ==
    { <<LBrace, RBrace>>,
      <<LBrace, StringTok("name"), Colon, Space, StringTok("widget"), RBrace>>,
      <<LBrace, StringTok("k"), Colon, LBrace, RBrace, RBrace>>,
      <<LBrace, StringTok("k"), Colon, NumberTok("1"), Comma,
        StringTok("name"), Colon, LBrace, StringTok("k"), Colon, NullTok, RBrace,
        RBrace>> }
    \cup { <<LBrace>> \o m \o <<RBrace>> :
               m \in UNION { MemberTexts(n) : n \in 1..MaxPairs } }

(* Every text cut short: the empty text and each proper prefix *)
TruncatedTexts ==
    UNION { { SubSeq(t, 1, n) : n \in 0..(Len(t) - 1) } : t \in ObjectTexts }

OtherTexts ==
    { <<StringTok("widget")>>, <<NumberTok("1")>>, <<ConstantTok("NaN")>>,
      <<NullTok>>, <<TrueTok>>, <<LBracket, RBracket>>,
      <<LBracket, NumberTok("1"), Comma, FalseTok, RBracket>>,
      <<LBracket, NumberTok("1"), Comma, RBracket>>,
      <<LBrace, RBrace, RBrace>>, << <<"junk", "oops">> >>,
      <<LBrace, StringTok("k"), Colon, <<"junk", "oops">>, RBrace>> }

Bodies == ObjectTexts \cup TruncatedTexts \cup OtherTexts

WidgetText == <<LBrace, StringTok("name"), Colon, StringTok("widget"), RBrace>>

(* The event's requestContext entry: a method, or a level left out *)
ContextOf(m) == <<"requestContext",
                  PyDict(<< <<"http", PyDict(<< <<"method", m>> >>)>> >>)>>

MethodValues == { PyStr("GET"), PyStr("POST"), PyStr("DELETE"), PyStr("get"), PyNone }

Contexts ==
    { <<ContextOf(m)>> : m \in MethodValues }
    \cup { <<>>,
           << <<"requestContext", PyDict(<<>>)>> >>,
           << <<"requestContext", PyDict(<< <<"http", PyDict(<<>>)>> >>)>> >>,
           << <<"requestContext", PyNone>> >>,
           << <<"requestContext", PyDict(<< <<"http", PyNone>> >>)>> >> }

BodyEntries(texts) ==
    { <<>>, << <<"body", PyNone>> >> } \cup { << <<"body", PyText(t)>> >> : t \in texts }

(* A POST with every body; every other context with a few *)
AllEvents ==
    { PyDict(<<ContextOf(PyStr("POST"))>> \o b) : b \in BodyEntries(Bodies) }
    \cup { PyDict(c \o b) :
               c \in Contexts,
               b \in BodyEntries({WidgetText, << <<"junk", "oops">> >>}) }

WidgetEvent == PyDict(<<ContextOf(PyStr("POST")), <<"body", PyText(WidgetText)>> >>)

(* The requests of the concurrent runs *)
CoreEvents ==
    { PyDict(<<ContextOf(PyStr("GET"))>>), WidgetEvent,
      PyDict(<<ContextOf(PyStr("POST"))>>), PyDict(<<ContextOf(PyStr("DELETE"))>>) }

---------------------------------------------------------------------------
(* lambda_function.py *)

NoResponse == [statusCode |-> 0, body |-> <<>>]

(* random.random() < FAILURE_PROBABILITY *)
should_fail_request(draw) == draw < FAILURE_PROBABILITY

(* random.choice(seq), by the value the generator yields *)
random_choice(seq, draw) == seq[(draw % Len(seq)) + 1]

ErrorBody(error, message) ==
    json_dumps(PyDict(<< <<"error", PyStr(error)>>, <<"message", PyStr(message)>> >>))

generate_error_response(draw) ==
    LET error_type == random_choice(<<"400", "500">>, draw)
    IN  IF error_type = "400"
        THEN [statusCode |-> 400,
              body |-> ErrorBody("BadRequest", "Simulated client error")]
        ELSE [statusCode |-> 500,
              body |-> ErrorBody("InternalServerError", "Simulated server error")]

(* The item list cut to its first item *)
GetResponse_OneItem ==
    [statusCode |-> 200,
     body |-> json_dumps(PyDict(<<
                 <<"message", PyStr("GET request successful")>>,
                 <<"items", <<"list", <<PyStr("item1")>> >> >> >>))]

GetResponse ==
    [statusCode |-> 200,
     body |-> json_dumps(PyDict(<<
                 <<"message", PyStr("GET request successful")>>,
                 <<"items", <<"list", <<PyStr("item1"), PyStr("item2")>> >> >> >>))]

(* event.get("body"), the default left out *)
PostBody_NoDefault(ev) == DictGet(ev, "body", PyNone)

PostBody(ev) == DictGet(ev, "body", PyText(<<LBrace, RBrace>>))

PostResponse(body) ==
    [statusCode |-> 201,
     body |-> json_dumps(PyDict(<<
                 <<"message", PyStr("POST request successful")>>,
                 <<"received", body>> >>))]

(* A 405 that tells what it was given *)
MethodNotAllowedResponse_Detailed ==
    [statusCode |-> 405,
     body |-> json_dumps(PyDict(<< <<"error", PyStr("MethodNotAllowed")>>,
                                   <<"message", PyStr("Unsupported HTTP method")>>,
                                   <<"stackTrace", PyStr("lambda_handler")>> >>))]

MethodNotAllowedResponse ==
    [statusCode |-> 405,
     body |-> ErrorBody("MethodNotAllowed", "Unsupported HTTP method")]

(* event["requestContext"]["http"]["method"]: a level left out is a KeyError *)
MethodOf_Subscript(ev) ==
    IF ~HasKey(ev, "requestContext")
       \/ ~IsDict(DictGet(ev, "requestContext", PyNone))
       \/ ~HasKey(DictGet(ev, "requestContext", PyNone), "http")
       \/ ~IsDict(DictGet(DictGet(ev, "requestContext", PyNone), "http", PyNone))
       \/ ~HasKey(DictGet(DictGet(ev, "requestContext", PyNone), "http", PyNone),
                  "method")
    THEN [exc |-> "KeyError", val |-> Unset]
    ELSE [exc |-> "",
          val |-> DictGet(DictGet(DictGet(ev, "requestContext", PyNone),
                                  "http", PyNone), "method", PyNone)]

(* event.get("requestContext", {}).get("http", {}).get("method"): *)
(* exc is "" or the exception of a .get on what is no dict        *)
MethodOf(ev) ==
    LET rc == DictGet(ev, "requestContext", PyDict(<<>>))
        http == DictGet(rc, "http", PyDict(<<>>))
    IN  IF ~IsDict(rc) \/ ~IsDict(http)
        THEN [exc |-> "AttributeError", val |-> Unset]
        ELSE [exc |-> "", val |-> DictGet(http, "method", PyNone)]

Init ==
    /\ rngStream \in [0..(RngPeriod - 1) -> DrawValues]
    /\ rngPos = 0
    /\ pc = [i \in Invocations |-> "idle"]
    /\ event = [i \in Invocations |-> PyDict(<<>>)]
    /\ draws = [i \in Invocations |-> <<>>]
    /\ http_method = [i \in Invocations |-> Unset]
    /\ response = [i \in Invocations |-> NoResponse]
    /\ raised = [i \in Invocations |-> ""]

(* The runtime calls lambda_handler(event, context) *)
Invoke(i, ev) ==
    /\ pc[i] = "idle"
    /\ pc' = [pc EXCEPT ![i] = "L74"]
    /\ event' = [event EXCEPT ![i] = ev]
    /\ draws' = [draws EXCEPT ![i] = <<>>]
    /\ http_method' = [http_method EXCEPT ![i] = Unset]
    /\ response' = [response EXCEPT ![i] = NoResponse]
    /\ raised' = [raised EXCEPT ![i] = ""]
    /\ UNCHANGED <<rngStream, rngPos>>

(* One value of the module-level generator, which moves on *)
Random(i) ==
    /\ draws' = [draws EXCEPT ![i] = Append(@, rngStream[rngPos])]
    /\ rngPos' = (rngPos + 1) % RngPeriod
    /\ UNCHANGED rngStream

(* The fault check made to spare GET requests *)
FaultCheck_SparesGet(i) ==
    /\ pc[i] = "L74"
    /\ Random(i)
    /\ pc' = [pc EXCEPT ![i] =
                 IF should_fail_request(rngStream[rngPos])
                    /\ MethodOf(event[i]).val # PyStr("GET")
                 THEN "L75" ELSE "L78"]
    /\ UNCHANGED <<event, http_method, response, raised>>

(* line 74: if should_fail_request() *)
FaultCheck(i) ==
    /\ pc[i] = "L74"
    /\ Random(i)
    /\ pc' = [pc EXCEPT ![i] =
                 IF should_fail_request(rngStream[rngPos]) THEN "L75" ELSE "L78"]
    /\ UNCHANGED <<event, http_method, response, raised>>

(* generate_error_response() called and its result not returned *)
FaultReturn_FallsThrough(i) ==
    /\ pc[i] = "L75"
    /\ Random(i)
    /\ pc' = [pc EXCEPT ![i] = "L78"]
    /\ UNCHANGED <<event, http_method, response, raised>>

(* line 75: return generate_error_response() *)
FaultReturn(i) ==
    /\ pc[i] = "L75"
    /\ Random(i)
    /\ response' = [response EXCEPT ![i] = generate_error_response(rngStream[rngPos])]
    /\ pc' = [pc EXCEPT ![i] = "returned"]
    /\ UNCHANGED <<event, http_method, raised>>

(* lines 78-80: http_method = event.get(...).get(...).get("method") *)
ExtractMethod(i) ==
    /\ pc[i] = "L78"
    /\ LET m == MethodOf(event[i])
       IN  IF m.exc = ""
           THEN /\ http_method' = [http_method EXCEPT ![i] = m.val]
                /\ pc' = [pc EXCEPT ![i] = "L82"]
                /\ UNCHANGED raised
           ELSE /\ raised' = [raised EXCEPT ![i] = m.exc]
                /\ pc' = [pc EXCEPT ![i] = "raised"]
                /\ UNCHANGED http_method
    /\ UNCHANGED <<rngStream, rngPos, event, draws, response>>

(* lines 82-108: the three branches on http_method *)
Dispatch(i) ==
    /\ pc[i] = "L82"
    /\ IF http_method[i] = PyStr("GET")
       THEN /\ response' = [response EXCEPT ![i] = GetResponse]
            /\ pc' = [pc EXCEPT ![i] = "returned"]
            /\ UNCHANGED raised
       ELSE IF http_method[i] = PyStr("POST")
       THEN LET body == json_loads(PostBody(event[i]))
            IN  IF body.exc = ""
                THEN /\ response' = [response EXCEPT ![i] = PostResponse(body.val)]
                     /\ pc' = [pc EXCEPT ![i] = "returned"]
                     /\ UNCHANGED raised
                ELSE /\ raised' = [raised EXCEPT ![i] = body.exc]
                     /\ pc' = [pc EXCEPT ![i] = "raised"]
                     /\ UNCHANGED response
       ELSE /\ response' = [response EXCEPT ![i] = MethodNotAllowedResponse]
            /\ pc' = [pc EXCEPT ![i] = "returned"]
            /\ UNCHANGED raised
    /\ UNCHANGED <<rngStream, rngPos, event, draws, http_method>>

(* The runtime takes the response, or the exception, and the call is over *)
Complete(i) ==
    /\ pc[i] \in {"returned", "raised"}
    /\ pc' = [pc EXCEPT ![i] = "idle"]
    /\ event' = [event EXCEPT ![i] = PyDict(<<>>)]
    /\ draws' = [draws EXCEPT ![i] = <<>>]
    /\ http_method' = [http_method EXCEPT ![i] = Unset]
    /\ response' = [response EXCEPT ![i] = NoResponse]
    /\ raised' = [raised EXCEPT ![i] = ""]
    /\ UNCHANGED <<rngStream, rngPos>>

(* One process serving one invocation after another *)
Next ==
    \/ \E ev \in AllEvents : Invoke(1, ev)
    \/ FaultCheck(1)
    \/ FaultReturn(1)
    \/ ExtractMethod(1)
    \/ Dispatch(1)
    \/ Complete(1)

Spec == Init /\ [][Next]_vars

(* Invocations in flight together in one process *)
NextConc ==
    \E i \in Invocations :
        \/ \E ev \in CoreEvents : Invoke(i, ev)
        \/ FaultCheck(i)
        \/ FaultReturn(i)
        \/ ExtractMethod(i)
        \/ Dispatch(i)
        \/ Complete(i)

SpecConc == Init /\ [][NextConc]_vars

---------------------------------------------------------------------------
(* What the claims speak of *)

Terminal(i) == pc[i] \in {"returned", "raised"}

(* The fault check of invocation i was made and its draw was below the threshold *)
Triggered(i) == draws[i] # <<>> /\ draws[i][1] < FAILURE_PROBABILITY
NotTriggered(i) == draws[i] # <<>> /\ ~(draws[i][1] < FAILURE_PROBABILITY)

(* The request's method: requestContext.http.method, where all three are there *)
HasMethodField(ev) ==
    /\ HasKey(ev, "requestContext")
    /\ IsDict(DictGet(ev, "requestContext", PyNone))
    /\ HasKey(DictGet(ev, "requestContext", PyNone), "http")
    /\ IsDict(DictGet(DictGet(ev, "requestContext", PyNone), "http", PyNone))
    /\ HasKey(DictGet(DictGet(ev, "requestContext", PyNone), "http", PyNone), "method")

RequestMethod(ev) ==
    DictGet(DictGet(DictGet(ev, "requestContext", PyNone), "http", PyNone),
            "method", PyNone)

IsMethod(ev, m) == HasMethodField(ev) /\ RequestMethod(ev) = PyStr(m)

(* requestContext, http or method is not present *)
MethodMissing(ev) ==
    \/ ~HasKey(ev, "requestContext")
    \/ /\ IsDict(DictGet(ev, "requestContext", PyNone))
       /\ ~HasKey(DictGet(ev, "requestContext", PyNone), "http")
    \/ /\ IsDict(DictGet(ev, "requestContext", PyNone))
       /\ IsDict(DictGet(DictGet(ev, "requestContext", PyNone), "http", PyNone))
       /\ ~HasKey(DictGet(DictGet(ev, "requestContext", PyNone), "http", PyNone),
                  "method")

MethodOther(ev) ==
    HasMethodField(ev) /\ RequestMethod(ev) \notin {PyStr("GET"), PyStr("POST")}

BodyAbsent(ev) == ~HasKey(ev, "body")
BodyIsText(ev) == HasKey(ev, "body") /\ DictGet(ev, "body", PyNone)[1] = "text"
BodyText(ev) == DictGet(ev, "body", PyNone)[2]

(* RFC 8259: the grammar without NaN, Infinity and -Infinity *)
ValidJson(toks) == DecodeText(toks, FALSE).ok
ValidJsonObject(toks) == ValidJson(toks) /\ Head(StripWs(toks)) = LBrace

(* A member of the response body, as a client that parses it reads it *)
ResponseField(i, k) ==
    LET r == DecodeText(response[i].body, FALSE)
    IN  IF r.ok /\ IsDict(r.val) THEN DictGet(r.val, k, Unset) ELSE Unset

ResponseKeys(i) ==
    LET r == DecodeText(response[i].body, FALSE)
    IN  IF r.ok /\ IsDict(r.val)
        THEN { r.val[2][n][1] : n \in 1..Len(r.val[2]) } ELSE {}

(* The text of the member "received" of a 201 body *)
ReceivedText(i) ==
    LET t == StripWs(response[i].body)
    IN  IF Len(t) >= 9 THEN SubSeq(t, 8, Len(t) - 1) ELSE <<>>

Dispatched(i) == http_method[i] # Unset \/ raised[i] # ""

(* Invocation i took the branch of line 75 *)
FaultPath(i) == pc[i] = "L75" \/ (pc[i] = "returned" /\ ~Dispatched(i))

(* status, error and message of the three error responses *)
ErrorTriples ==
    { <<400, PyStr("BadRequest"), PyStr("Simulated client error")>>,
      <<500, PyStr("InternalServerError"), PyStr("Simulated server error")>>,
      <<405, PyStr("MethodNotAllowed"), PyStr("Unsupported HTTP method")>> }

CleanErrorBody(i) ==
    /\ ResponseKeys(i) = {"error", "message"}
    /\ <<response[i].statusCode, ResponseField(i, "error"),
         ResponseField(i, "message")>> \in ErrorTriples

---------------------------------------------------------------------------
(* The claims *)

(* C1: a GET request, the fault check not triggering, returns 200 with the *)
(* fixed message and the items ["item1", "item2"], whatever else the event *)
(* holds: the same text for every such invocation.                         *)
C1_GetReturnsFixedItems ==
    \A i \in Invocations :
        (Terminal(i) /\ IsMethod(event[i], "GET") /\ NotTriggered(i)) =>
            /\ pc[i] = "returned"
            /\ response[i].statusCode = 200
            /\ ResponseField(i, "message") = PyStr("GET request successful")
            /\ ResponseField(i, "items") = <<"list", <<PyStr("item1"), PyStr("item2")>> >>
            /\ Chars(response[i].body) =
                 "{\"message\": \"GET request successful\", \"items\": [\"item1\", \"item2\"]}"

C1_Witness ==
    \E i \in Invocations :
        /\ pc[i] = "returned" /\ NotTriggered(i)
        /\ IsMethod(event[i], "GET")
        /\ BodyIsText(event[i]) /\ ~ValidJson(BodyText(event[i]))
        /\ response[i].statusCode = 200

(* C2: a POST whose body is the text of a valid JSON object, the fault      *)
(* check not triggering, returns 201 and `received` is the posted object,  *)
(* nothing added, dropped or changed.                                      *)
C2_EchoRoundTrip ==
    \A i \in Invocations :
        (/\ Terminal(i) /\ NotTriggered(i)
         /\ IsMethod(event[i], "POST")
         /\ BodyIsText(event[i]) /\ ValidJsonObject(BodyText(event[i]))) =>
            /\ pc[i] = "returned"
            /\ response[i].statusCode = 201
            /\ ReceivedText(i) = StripWs(BodyText(event[i]))

(* C3: a POST with no body, the fault check not triggering, returns 201    *)
(* with `received` the empty object.                                       *)
C3_AbsentBodyEmptyObject ==
    \A i \in Invocations :
        (/\ Terminal(i) /\ NotTriggered(i)
         /\ IsMethod(event[i], "POST") /\ BodyAbsent(event[i])) =>
            /\ pc[i] = "returned"
            /\ response[i].statusCode = 201
            /\ ResponseField(i, "received") = PyDict(<<>>)

C3_Witness ==
    \E i \in Invocations :
        /\ pc[i] = "returned" /\ NotTriggered(i)
        /\ IsMethod(event[i], "POST") /\ BodyAbsent(event[i])
        /\ ReceivedText(i) = <<LBrace, RBrace>>

C5_FaultShortCircuits ==
    \A i \in Invocations :
        /\ Triggered(i) =>
              /\ pc[i] \in {"L75", "returned"}
              /\ ~Dispatched(i)
              /\ pc[i] = "returned" =>
                    /\ response[i].statusCode \in {400, 500}
                    /\ CleanErrorBody(i)
        /\ Terminal(i) =>
              \/ Triggered(i) /\ ~Dispatched(i)
              \/ NotTriggered(i) /\ Dispatched(i)

C5_Witness ==
    \E i \in Invocations :
        /\ pc[i] = "returned" /\ Triggered(i)
        /\ IsMethod(event[i], "GET")
        /\ response[i].statusCode = 500

(* C6: a POST whose body is text that is not valid JSON, the fault check   *)
(* not triggering, ends in an exception: no response is returned.          *)
C6_MalformedBodyRaises ==
    \A i \in Invocations :
        (/\ Terminal(i) /\ NotTriggered(i)
         /\ IsMethod(event[i], "POST")
         /\ BodyIsText(event[i]) /\ ~ValidJson(BodyText(event[i]))) =>
            /\ pc[i] = "raised"
            /\ response[i] = NoResponse

(* C7, as stated: every error outcome is a response whose body is an       *)
(* object of exactly `error` and `message`, fixed strings.                 *)
C7_EveryErrorOutcomeIsCleanResponse ==
    \A i \in Invocations :
        (pc[i] = "raised" \/ (pc[i] = "returned" /\ response[i].statusCode >= 400)) =>
            /\ pc[i] = "returned"
            /\ CleanErrorBody(i)

(* C7, amended: every response of status 400 or above is a 400, 405 or 500 *)
(* whose body is an object of exactly `error` and `message`, fixed         *)
(* strings; an exception that leaves lambda_handler comes with no response.*)
C7_ErrorResponsesAreClean ==
    \A i \in Invocations :
        /\ (pc[i] = "returned" /\ response[i].statusCode >= 400) => CleanErrorBody(i)
        /\ pc[i] = "raised" => (response[i] = NoResponse /\ NotTriggered(i))

C7_Witness ==
    \E i \in Invocations :
        /\ pc[i] = "returned" /\ response[i].statusCode = 405
        /\ BodyIsText(event[i]) /\ ~ValidJson(BodyText(event[i]))

(* C8, as stated: the widget POST yields 201 and the body text without     *)
(* spaces.                                                                 *)
C8_WidgetBodyCompact ==
    \A i \in Invocations :
        (pc[i] = "returned" /\ NotTriggered(i) /\ event[i] = WidgetEvent) =>
            /\ response[i].statusCode = 201
            /\ Chars(response[i].body) =
                 "{\"message\":\"POST request successful\",\"received\":{\"name\":\"widget\"}}"

(* C8, amended: the widget POST yields 201 and the body text with          *)
(* json.dumps's default separators, ", " and ": ".                         *)
C8_WidgetBodyDefaultSeparators ==
    \A i \in Invocations :
        (Terminal(i) /\ NotTriggered(i) /\ event[i] = WidgetEvent) =>
            /\ pc[i] = "returned"
            /\ response[i].statusCode = 201
            /\ Chars(response[i].body) =
                 "{\"message\": \"POST request successful\", \"received\": {\"name\": \"widget\"}}"

C8_Witness ==
    \E i \in Invocations :
        /\ pc[i] = "returned" /\ NotTriggered(i) /\ event[i] = WidgetEvent
        /\ Chars(BodyText(event[i])) = "{\"name\":\"widget\"}"
        /\ response[i].statusCode = 201

(* C9: the fault check is made once, before the method is extracted or the *)
(* body parsed, and two requests with the same draw get the same decision  *)
(* and, when it triggers, the same synthetic response.                     *)
C9_FaultCheckFirstOnceBlind ==
    /\ \A i \in Invocations :
          /\ pc[i] = "L74" =>
                (draws[i] = <<>> /\ ~Dispatched(i) /\ response[i] = NoResponse)
          /\ pc[i] \notin {"idle", "L74"} => Len(draws[i]) >= 1
          /\ (pc[i] \in {"L78", "L82"} \/ Dispatched(i)) => Len(draws[i]) = 1
          /\ FaultPath(i) => Len(draws[i]) = (IF pc[i] = "L75" THEN 1 ELSE 2)
    /\ \A i, j \in Invocations :
          /\ (draws[i] # <<>> /\ draws[j] # <<>> /\ draws[i][1] = draws[j][1]) =>
                (FaultPath(i) <=> FaultPath(j))
          /\ (/\ pc[i] = "returned" /\ pc[j] = "returned"
              /\ FaultPath(i) /\ FaultPath(j) /\ draws[i] = draws[j]) =>
                response[i] = response[j]

C9_Witness ==
    \E i, j \in Invocations :
        /\ event[i] # event[j]
        /\ pc[i] = "returned" /\ pc[j] = "returned"
        /\ FaultPath(i) /\ FaultPath(j)
        /\ draws[i] = draws[j]

(* C10: no step of one invocation writes what another invocation in flight *)
(* reads: the state of the generator that should_fail_request and          *)
(* generate_error_response draw from included.                             *)
C10_NoSharedMutableState ==
    [][\A i, j \in Invocations :
          (i # j /\ pc'[i] # pc[i] /\ pc[j] \in {"L74", "L75"}) =>
              rngPos' = rngPos]_vars
============================================================================
